---- MODULE Spec2Model ----
(***************************************************************************)
(* A model of src/app.py (AuraScan's Tesseract OCR service): the request   *)
(* handler predict_ocr_system and the helpers it calls.                    *)
(*                                                                         *)
(* Conventions.                                                            *)
(*  - A Python string is the sequence of its Unicode code points.          *)
(*  - An Optional value is a set with at most one element: None is {} and  *)
(*    a supplied value v is {v}.                                           *)
(*  - A Python float is the binary64 number it is, written <<m, e>> for    *)
(*    m * 2^e, and its arithmetic rounds as CPython 3.11's does.           *)
(*  - cv2, PIL and pytesseract are external: what they return is drawn     *)
(*    from sample sets, and any call of theirs may raise.                  *)
(***************************************************************************)
EXTENDS Integers, Sequences, FiniteSets, TLC

VARIABLES
    pc,                   \* position of the handler / of the helper under study
    request,              \* the raw form fields and query parameters
    mode, psm,            \* locals of predict_ocr_system after query override
    whitelist, blacklist,
    sanitized_whitelist, sanitized_blacklist,
    original_image,       \* [w, h] of the decoded upload
    image,                \* [w, h] of the image handed to the engine
    binary_map,           \* "binary" (preprocessed) or "gray" (degraded)
    regions,              \* list of (x, y, w, h)
    selected_psm,
    effective_config, last_config_used,
    formatted_results, confidence_values, mean_confidence,
    engine_calls,         \* history: every pytesseract call, in order
    initial_pass,         \* history: what the initial pass returned
    retry_pass,           \* history: what the retry pass returned, if it ran
    whole_text,           \* history: what image_to_string returned, if called
    response,             \* [status, msg, results, cause] once the handler returned
    lines,                \* the container of accumulate_ocr_lines: key -> line
    region_idx,           \* loop index of run_ocr_with_config
    merged                \* history: the tokens accumulate_ocr_lines kept

----------------------------------------------------------------------------
(* Optional values and Python truthiness *)

None == {}

Some(v) == {v}

Val(o) == CHOOSE v \in o : TRUE

\* `if s:` for an Optional[str]
TruthyStr(o) == o # None /\ Val(o) # <<>>

\* `if n:` for an Optional[int]
TruthyInt(o) == o # None /\ Val(o) # 0

----------------------------------------------------------------------------
(* Strings *)

RECURSIVE FilterSeq(_, _)
FilterSeq(s, keep) ==
    IF s = <<>> THEN <<>>
    ELSE IF Head(s) \in keep THEN <<Head(s)>> \o FilterSeq(Tail(s), keep)
         ELSE FilterSeq(Tail(s), keep)

RECURSIVE DropSeq(_, _)
DropSeq(s, drop) ==
    IF s = <<>> THEN <<>>
    ELSE IF Head(s) \in drop THEN DropSeq(Tail(s), drop)
         ELSE <<Head(s)>> \o DropSeq(Tail(s), drop)

InRanges(c, table) == \E r \in table : r[1] <= c /\ c <= r[2]

InRun(c, r) == r[1] <= c /\ c <= r[2] /\ (c - r[1]) % r[3] = 0

\* str.lower() of a single code point, Unicode 14 (CPython 3.11): every
\* code point lo, lo + step, ..., hi maps to itself plus delta; the entries
\* are <<lo, hi, step, delta>>.  Code points in no run map to themselves.
UnicodeLowerRuns ==
    {<<65, 90, 1, 32>>, <<192, 214, 1, 32>>, <<216, 222, 1, 32>>,
     <<256, 302, 2, 1>>, <<306, 310, 2, 1>>, <<313, 327, 2, 1>>,
     <<330, 374, 2, 1>>, <<376, 376, 1, -121>>, <<377, 381, 2, 1>>,
     <<385, 385, 1, 210>>, <<386, 388, 2, 1>>, <<390, 390, 1, 206>>,
     <<391, 391, 1, 1>>, <<393, 394, 1, 205>>, <<395, 395, 1, 1>>,
     <<398, 398, 1, 79>>, <<399, 399, 1, 202>>, <<400, 400, 1, 203>>,
     <<401, 401, 1, 1>>, <<403, 403, 1, 205>>, <<404, 404, 1, 207>>,
     <<406, 406, 1, 211>>, <<407, 407, 1, 209>>, <<408, 408, 1, 1>>,
     <<412, 412, 1, 211>>, <<413, 413, 1, 213>>, <<415, 415, 1, 214>>,
     <<416, 420, 2, 1>>, <<422, 422, 1, 218>>, <<423, 423, 1, 1>>,
     <<425, 425, 1, 218>>, <<428, 428, 1, 1>>, <<430, 430, 1, 218>>,
     <<431, 431, 1, 1>>, <<433, 434, 1, 217>>, <<435, 437, 2, 1>>,
     <<439, 439, 1, 219>>, <<440, 440, 1, 1>>, <<444, 444, 1, 1>>,
     <<452, 452, 1, 2>>, <<453, 453, 1, 1>>, <<455, 455, 1, 2>>,
     <<456, 456, 1, 1>>, <<458, 458, 1, 2>>, <<459, 475, 2, 1>>,
     <<478, 494, 2, 1>>, <<497, 497, 1, 2>>, <<498, 500, 2, 1>>,
     <<502, 502, 1, -97>>, <<503, 503, 1, -56>>, <<504, 542, 2, 1>>,
     <<544, 544, 1, -130>>, <<546, 562, 2, 1>>, <<570, 570, 1, 10795>>,
     <<571, 571, 1, 1>>, <<573, 573, 1, -163>>, <<574, 574, 1, 10792>>,
     <<577, 577, 1, 1>>, <<579, 579, 1, -195>>, <<580, 580, 1, 69>>,
     <<581, 581, 1, 71>>, <<582, 590, 2, 1>>, <<880, 882, 2, 1>>,
     <<886, 886, 1, 1>>, <<895, 895, 1, 116>>, <<902, 902, 1, 38>>,
     <<904, 906, 1, 37>>, <<908, 908, 1, 64>>, <<910, 911, 1, 63>>,
     <<913, 929, 1, 32>>, <<931, 939, 1, 32>>, <<975, 975, 1, 8>>,
     <<984, 1006, 2, 1>>, <<1012, 1012, 1, -60>>, <<1015, 1015, 1, 1>>,
     <<1017, 1017, 1, -7>>, <<1018, 1018, 1, 1>>, <<1021, 1023, 1, -130>>,
     <<1024, 1039, 1, 80>>, <<1040, 1071, 1, 32>>, <<1120, 1152, 2, 1>>,
     <<1162, 1214, 2, 1>>, <<1216, 1216, 1, 15>>, <<1217, 1229, 2, 1>>,
     <<1232, 1326, 2, 1>>, <<1329, 1366, 1, 48>>, <<4256, 4293, 1, 7264>>,
     <<4295, 4295, 1, 7264>>, <<4301, 4301, 1, 7264>>,
     <<5024, 5103, 1, 38864>>, <<5104, 5109, 1, 8>>,
     <<7312, 7354, 1, -3008>>, <<7357, 7359, 1, -3008>>,
     <<7680, 7828, 2, 1>>, <<7838, 7838, 1, -7615>>, <<7840, 7934, 2, 1>>,
     <<7944, 7951, 1, -8>>, <<7960, 7965, 1, -8>>, <<7976, 7983, 1, -8>>,
     <<7992, 7999, 1, -8>>, <<8008, 8013, 1, -8>>, <<8025, 8031, 2, -8>>,
     <<8040, 8047, 1, -8>>, <<8072, 8079, 1, -8>>, <<8088, 8095, 1, -8>>,
     <<8104, 8111, 1, -8>>, <<8120, 8121, 1, -8>>, <<8122, 8123, 1, -74>>,
     <<8124, 8124, 1, -9>>, <<8136, 8139, 1, -86>>, <<8140, 8140, 1, -9>>,
     <<8152, 8153, 1, -8>>, <<8154, 8155, 1, -100>>, <<8168, 8169, 1, -8>>,
     <<8170, 8171, 1, -112>>, <<8172, 8172, 1, -7>>, <<8184, 8185, 1, -128>>,
     <<8186, 8187, 1, -126>>, <<8188, 8188, 1, -9>>,
     <<8486, 8486, 1, -7517>>, <<8490, 8490, 1, -8383>>,
     <<8491, 8491, 1, -8262>>, <<8498, 8498, 1, 28>>, <<8544, 8559, 1, 16>>,
     <<8579, 8579, 1, 1>>, <<9398, 9423, 1, 26>>, <<11264, 11311, 1, 48>>,
     <<11360, 11360, 1, 1>>, <<11362, 11362, 1, -10743>>,
     <<11363, 11363, 1, -3814>>, <<11364, 11364, 1, -10727>>,
     <<11367, 11371, 2, 1>>, <<11373, 11373, 1, -10780>>,
     <<11374, 11374, 1, -10749>>, <<11375, 11375, 1, -10783>>,
     <<11376, 11376, 1, -10782>>, <<11378, 11378, 1, 1>>,
     <<11381, 11381, 1, 1>>, <<11390, 11391, 1, -10815>>,
     <<11392, 11490, 2, 1>>, <<11499, 11501, 2, 1>>, <<11506, 11506, 1, 1>>,
     <<42560, 42604, 2, 1>>, <<42624, 42650, 2, 1>>, <<42786, 42798, 2, 1>>,
     <<42802, 42862, 2, 1>>, <<42873, 42875, 2, 1>>,
     <<42877, 42877, 1, -35332>>, <<42878, 42886, 2, 1>>,
     <<42891, 42891, 1, 1>>, <<42893, 42893, 1, -42280>>,
     <<42896, 42898, 2, 1>>, <<42902, 42920, 2, 1>>,
     <<42922, 42922, 1, -42308>>, <<42923, 42923, 1, -42319>>,
     <<42924, 42924, 1, -42315>>, <<42925, 42925, 1, -42305>>,
     <<42926, 42926, 1, -42308>>, <<42928, 42928, 1, -42258>>,
     <<42929, 42929, 1, -42282>>, <<42930, 42930, 1, -42261>>,
     <<42931, 42931, 1, 928>>, <<42932, 42946, 2, 1>>,
     <<42948, 42948, 1, -48>>, <<42949, 42949, 1, -42307>>,
     <<42950, 42950, 1, -35384>>, <<42951, 42953, 2, 1>>,
     <<42960, 42960, 1, 1>>, <<42966, 42968, 2, 1>>, <<42997, 42997, 1, 1>>,
     <<65313, 65338, 1, 32>>, <<66560, 66599, 1, 40>>,
     <<66736, 66771, 1, 40>>, <<66928, 66938, 1, 39>>,
     <<66940, 66954, 1, 39>>, <<66956, 66962, 1, 39>>,
     <<66964, 66965, 1, 39>>, <<68736, 68786, 1, 64>>,
     <<71840, 71871, 1, 32>>, <<93760, 93791, 1, 32>>,
     <<125184, 125217, 1, 34>>}

\* the ranges <<lo, hi>> of the code points that are cased and not
\* case-ignorable
UnicodeCased ==
    {<<65, 90>>, <<97, 122>>, <<170, 170>>, <<181, 181>>, <<186, 186>>,
     <<192, 214>>, <<216, 246>>, <<248, 442>>, <<444, 447>>, <<452, 659>>,
     <<661, 687>>, <<880, 883>>, <<886, 887>>, <<891, 893>>, <<895, 895>>,
     <<902, 902>>, <<904, 906>>, <<908, 908>>, <<910, 929>>, <<931, 1013>>,
     <<1015, 1153>>, <<1162, 1327>>, <<1329, 1366>>, <<1376, 1416>>,
     <<4256, 4293>>, <<4295, 4295>>, <<4301, 4301>>, <<4304, 4346>>,
     <<4349, 4351>>, <<5024, 5109>>, <<5112, 5117>>, <<7296, 7304>>,
     <<7312, 7354>>, <<7357, 7359>>, <<7424, 7467>>, <<7531, 7543>>,
     <<7545, 7578>>, <<7680, 7957>>, <<7960, 7965>>, <<7968, 8005>>,
     <<8008, 8013>>, <<8016, 8023>>, <<8025, 8025>>, <<8027, 8027>>,
     <<8029, 8029>>, <<8031, 8061>>, <<8064, 8116>>, <<8118, 8124>>,
     <<8126, 8126>>, <<8130, 8132>>, <<8134, 8140>>, <<8144, 8147>>,
     <<8150, 8155>>, <<8160, 8172>>, <<8178, 8180>>, <<8182, 8188>>,
     <<8450, 8450>>, <<8455, 8455>>, <<8458, 8467>>, <<8469, 8469>>,
     <<8473, 8477>>, <<8484, 8484>>, <<8486, 8486>>, <<8488, 8488>>,
     <<8490, 8493>>, <<8495, 8500>>, <<8505, 8505>>, <<8508, 8511>>,
     <<8517, 8521>>, <<8526, 8526>>, <<8544, 8575>>, <<8579, 8580>>,
     <<9398, 9449>>, <<11264, 11387>>, <<11390, 11492>>, <<11499, 11502>>,
     <<11506, 11507>>, <<11520, 11557>>, <<11559, 11559>>, <<11565, 11565>>,
     <<42560, 42605>>, <<42624, 42651>>, <<42786, 42863>>, <<42865, 42887>>,
     <<42891, 42894>>, <<42896, 42954>>, <<42960, 42961>>, <<42963, 42963>>,
     <<42965, 42969>>, <<42997, 42998>>, <<43002, 43002>>, <<43824, 43866>>,
     <<43872, 43880>>, <<43888, 43967>>, <<64256, 64262>>, <<64275, 64279>>,
     <<65313, 65338>>, <<65345, 65370>>, <<66560, 66639>>, <<66736, 66771>>,
     <<66776, 66811>>, <<66928, 66938>>, <<66940, 66954>>, <<66956, 66962>>,
     <<66964, 66965>>, <<66967, 66977>>, <<66979, 66993>>, <<66995, 67001>>,
     <<67003, 67004>>, <<68736, 68786>>, <<68800, 68850>>, <<71840, 71903>>,
     <<93760, 93823>>, <<119808, 119892>>, <<119894, 119964>>,
     <<119966, 119967>>, <<119970, 119970>>, <<119973, 119974>>,
     <<119977, 119980>>, <<119982, 119993>>, <<119995, 119995>>,
     <<119997, 120003>>, <<120005, 120069>>, <<120071, 120074>>,
     <<120077, 120084>>, <<120086, 120092>>, <<120094, 120121>>,
     <<120123, 120126>>, <<120128, 120132>>, <<120134, 120134>>,
     <<120138, 120144>>, <<120146, 120485>>, <<120488, 120512>>,
     <<120514, 120538>>, <<120540, 120570>>, <<120572, 120596>>,
     <<120598, 120628>>, <<120630, 120654>>, <<120656, 120686>>,
     <<120688, 120712>>, <<120714, 120744>>, <<120746, 120770>>,
     <<120772, 120779>>, <<122624, 122633>>, <<122635, 122654>>,
     <<125184, 125251>>, <<127280, 127305>>, <<127312, 127337>>,
     <<127344, 127369>>}

\* the ranges <<lo, hi>> of the case-ignorable code points
UnicodeCaseIgnorable ==
    {<<39, 39>>, <<46, 46>>, <<58, 58>>, <<94, 94>>, <<96, 96>>,
     <<168, 168>>, <<173, 173>>, <<175, 175>>, <<180, 180>>, <<183, 184>>,
     <<688, 879>>, <<884, 885>>, <<890, 890>>, <<900, 901>>, <<903, 903>>,
     <<1155, 1161>>, <<1369, 1369>>, <<1375, 1375>>, <<1425, 1469>>,
     <<1471, 1471>>, <<1473, 1474>>, <<1476, 1477>>, <<1479, 1479>>,
     <<1524, 1524>>, <<1536, 1541>>, <<1552, 1562>>, <<1564, 1564>>,
     <<1600, 1600>>, <<1611, 1631>>, <<1648, 1648>>, <<1750, 1757>>,
     <<1759, 1768>>, <<1770, 1773>>, <<1807, 1807>>, <<1809, 1809>>,
     <<1840, 1866>>, <<1958, 1968>>, <<2027, 2037>>, <<2042, 2042>>,
     <<2045, 2045>>, <<2070, 2093>>, <<2137, 2139>>, <<2184, 2184>>,
     <<2192, 2193>>, <<2200, 2207>>, <<2249, 2306>>, <<2362, 2362>>,
     <<2364, 2364>>, <<2369, 2376>>, <<2381, 2381>>, <<2385, 2391>>,
     <<2402, 2403>>, <<2417, 2417>>, <<2433, 2433>>, <<2492, 2492>>,
     <<2497, 2500>>, <<2509, 2509>>, <<2530, 2531>>, <<2558, 2558>>,
     <<2561, 2562>>, <<2620, 2620>>, <<2625, 2626>>, <<2631, 2632>>,
     <<2635, 2637>>, <<2641, 2641>>, <<2672, 2673>>, <<2677, 2677>>,
     <<2689, 2690>>, <<2748, 2748>>, <<2753, 2757>>, <<2759, 2760>>,
     <<2765, 2765>>, <<2786, 2787>>, <<2810, 2815>>, <<2817, 2817>>,
     <<2876, 2876>>, <<2879, 2879>>, <<2881, 2884>>, <<2893, 2893>>,
     <<2901, 2902>>, <<2914, 2915>>, <<2946, 2946>>, <<3008, 3008>>,
     <<3021, 3021>>, <<3072, 3072>>, <<3076, 3076>>, <<3132, 3132>>,
     <<3134, 3136>>, <<3142, 3144>>, <<3146, 3149>>, <<3157, 3158>>,
     <<3170, 3171>>, <<3201, 3201>>, <<3260, 3260>>, <<3263, 3263>>,
     <<3270, 3270>>, <<3276, 3277>>, <<3298, 3299>>, <<3328, 3329>>,
     <<3387, 3388>>, <<3393, 3396>>, <<3405, 3405>>, <<3426, 3427>>,
     <<3457, 3457>>, <<3530, 3530>>, <<3538, 3540>>, <<3542, 3542>>,
     <<3633, 3633>>, <<3636, 3642>>, <<3654, 3662>>, <<3761, 3761>>,
     <<3764, 3772>>, <<3782, 3782>>, <<3784, 3789>>, <<3864, 3865>>,
     <<3893, 3893>>, <<3895, 3895>>, <<3897, 3897>>, <<3953, 3966>>,
     <<3968, 3972>>, <<3974, 3975>>, <<3981, 3991>>, <<3993, 4028>>,
     <<4038, 4038>>, <<4141, 4144>>, <<4146, 4151>>, <<4153, 4154>>,
     <<4157, 4158>>, <<4184, 4185>>, <<4190, 4192>>, <<4209, 4212>>,
     <<4226, 4226>>, <<4229, 4230>>, <<4237, 4237>>, <<4253, 4253>>,
     <<4348, 4348>>, <<4957, 4959>>, <<5906, 5908>>, <<5938, 5939>>,
     <<5970, 5971>>, <<6002, 6003>>, <<6068, 6069>>, <<6071, 6077>>,
     <<6086, 6086>>, <<6089, 6099>>, <<6103, 6103>>, <<6109, 6109>>,
     <<6155, 6159>>, <<6211, 6211>>, <<6277, 6278>>, <<6313, 6313>>,
     <<6432, 6434>>, <<6439, 6440>>, <<6450, 6450>>, <<6457, 6459>>,
     <<6679, 6680>>, <<6683, 6683>>, <<6742, 6742>>, <<6744, 6750>>,
     <<6752, 6752>>, <<6754, 6754>>, <<6757, 6764>>, <<6771, 6780>>,
     <<6783, 6783>>, <<6823, 6823>>, <<6832, 6862>>, <<6912, 6915>>,
     <<6964, 6964>>, <<6966, 6970>>, <<6972, 6972>>, <<6978, 6978>>,
     <<7019, 7027>>, <<7040, 7041>>, <<7074, 7077>>, <<7080, 7081>>,
     <<7083, 7085>>, <<7142, 7142>>, <<7144, 7145>>, <<7149, 7149>>,
     <<7151, 7153>>, <<7212, 7219>>, <<7222, 7223>>, <<7288, 7293>>,
     <<7376, 7378>>, <<7380, 7392>>, <<7394, 7400>>, <<7405, 7405>>,
     <<7412, 7412>>, <<7416, 7417>>, <<7468, 7530>>, <<7544, 7544>>,
     <<7579, 7679>>, <<8125, 8125>>, <<8127, 8129>>, <<8141, 8143>>,
     <<8157, 8159>>, <<8173, 8175>>, <<8189, 8190>>, <<8203, 8207>>,
     <<8216, 8217>>, <<8228, 8228>>, <<8231, 8231>>, <<8234, 8238>>,
     <<8288, 8292>>, <<8294, 8303>>, <<8305, 8305>>, <<8319, 8319>>,
     <<8336, 8348>>, <<8400, 8432>>, <<11388, 11389>>, <<11503, 11505>>,
     <<11631, 11631>>, <<11647, 11647>>, <<11744, 11775>>, <<11823, 11823>>,
     <<12293, 12293>>, <<12330, 12333>>, <<12337, 12341>>, <<12347, 12347>>,
     <<12441, 12446>>, <<12540, 12542>>, <<40981, 40981>>, <<42232, 42237>>,
     <<42508, 42508>>, <<42607, 42610>>, <<42612, 42621>>, <<42623, 42623>>,
     <<42652, 42655>>, <<42736, 42737>>, <<42752, 42785>>, <<42864, 42864>>,
     <<42888, 42890>>, <<42994, 42996>>, <<43000, 43001>>, <<43010, 43010>>,
     <<43014, 43014>>, <<43019, 43019>>, <<43045, 43046>>, <<43052, 43052>>,
     <<43204, 43205>>, <<43232, 43249>>, <<43263, 43263>>, <<43302, 43309>>,
     <<43335, 43345>>, <<43392, 43394>>, <<43443, 43443>>, <<43446, 43449>>,
     <<43452, 43453>>, <<43471, 43471>>, <<43493, 43494>>, <<43561, 43566>>,
     <<43569, 43570>>, <<43573, 43574>>, <<43587, 43587>>, <<43596, 43596>>,
     <<43632, 43632>>, <<43644, 43644>>, <<43696, 43696>>, <<43698, 43700>>,
     <<43703, 43704>>, <<43710, 43711>>, <<43713, 43713>>, <<43741, 43741>>,
     <<43756, 43757>>, <<43763, 43764>>, <<43766, 43766>>, <<43867, 43871>>,
     <<43881, 43883>>, <<44005, 44005>>, <<44008, 44008>>, <<44013, 44013>>,
     <<64286, 64286>>, <<64434, 64450>>, <<65024, 65039>>, <<65043, 65043>>,
     <<65056, 65071>>, <<65106, 65106>>, <<65109, 65109>>, <<65279, 65279>>,
     <<65287, 65287>>, <<65294, 65294>>, <<65306, 65306>>, <<65342, 65342>>,
     <<65344, 65344>>, <<65392, 65392>>, <<65438, 65439>>, <<65507, 65507>>,
     <<65529, 65531>>, <<66045, 66045>>, <<66272, 66272>>, <<66422, 66426>>,
     <<67456, 67461>>, <<67463, 67504>>, <<67506, 67514>>, <<68097, 68099>>,
     <<68101, 68102>>, <<68108, 68111>>, <<68152, 68154>>, <<68159, 68159>>,
     <<68325, 68326>>, <<68900, 68903>>, <<69291, 69292>>, <<69446, 69456>>,
     <<69506, 69509>>, <<69633, 69633>>, <<69688, 69702>>, <<69744, 69744>>,
     <<69747, 69748>>, <<69759, 69761>>, <<69811, 69814>>, <<69817, 69818>>,
     <<69821, 69821>>, <<69826, 69826>>, <<69837, 69837>>, <<69888, 69890>>,
     <<69927, 69931>>, <<69933, 69940>>, <<70003, 70003>>, <<70016, 70017>>,
     <<70070, 70078>>, <<70089, 70092>>, <<70095, 70095>>, <<70191, 70193>>,
     <<70196, 70196>>, <<70198, 70199>>, <<70206, 70206>>, <<70367, 70367>>,
     <<70371, 70378>>, <<70400, 70401>>, <<70459, 70460>>, <<70464, 70464>>,
     <<70502, 70508>>, <<70512, 70516>>, <<70712, 70719>>, <<70722, 70724>>,
     <<70726, 70726>>, <<70750, 70750>>, <<70835, 70840>>, <<70842, 70842>>,
     <<70847, 70848>>, <<70850, 70851>>, <<71090, 71093>>, <<71100, 71101>>,
     <<71103, 71104>>, <<71132, 71133>>, <<71219, 71226>>, <<71229, 71229>>,
     <<71231, 71232>>, <<71339, 71339>>, <<71341, 71341>>, <<71344, 71349>>,
     <<71351, 71351>>, <<71453, 71455>>, <<71458, 71461>>, <<71463, 71467>>,
     <<71727, 71735>>, <<71737, 71738>>, <<71995, 71996>>, <<71998, 71998>>,
     <<72003, 72003>>, <<72148, 72151>>, <<72154, 72155>>, <<72160, 72160>>,
     <<72193, 72202>>, <<72243, 72248>>, <<72251, 72254>>, <<72263, 72263>>,
     <<72273, 72278>>, <<72281, 72283>>, <<72330, 72342>>, <<72344, 72345>>,
     <<72752, 72758>>, <<72760, 72765>>, <<72767, 72767>>, <<72850, 72871>>,
     <<72874, 72880>>, <<72882, 72883>>, <<72885, 72886>>, <<73009, 73014>>,
     <<73018, 73018>>, <<73020, 73021>>, <<73023, 73029>>, <<73031, 73031>>,
     <<73104, 73105>>, <<73109, 73109>>, <<73111, 73111>>, <<73459, 73460>>,
     <<78896, 78904>>, <<92912, 92916>>, <<92976, 92982>>, <<92992, 92995>>,
     <<94031, 94031>>, <<94095, 94111>>, <<94176, 94177>>, <<94179, 94180>>,
     <<110576, 110579>>, <<110581, 110587>>, <<110589, 110590>>,
     <<113821, 113822>>, <<113824, 113827>>, <<118528, 118573>>,
     <<118576, 118598>>, <<119143, 119145>>, <<119155, 119170>>,
     <<119173, 119179>>, <<119210, 119213>>, <<119362, 119364>>,
     <<121344, 121398>>, <<121403, 121452>>, <<121461, 121461>>,
     <<121476, 121476>>, <<121499, 121503>>, <<121505, 121519>>,
     <<122880, 122886>>, <<122888, 122904>>, <<122907, 122913>>,
     <<122915, 122916>>, <<122918, 122922>>, <<123184, 123197>>,
     <<123566, 123566>>, <<123628, 123631>>, <<125136, 125142>>,
     <<125252, 125259>>, <<127995, 127999>>, <<917505, 917505>>,
     <<917536, 917631>>, <<917760, 917999>>}

\* the lowercase of one code point other than capital sigma; U+0130 is
\* the one code point whose lowercase has two code points
LowerChar(c) ==
    IF c = 304 THEN <<105, 775>>
    ELSE IF \E r \in UnicodeLowerRuns : InRun(c, r)
    THEN <<c + (CHOOSE r \in UnicodeLowerRuns : InRun(c, r))[4]>>
    ELSE <<c>>

\* capital sigma at s[i] is final: a cased letter precedes it and none
\* follows it, case-ignorable code points skipped on both sides
FinalSigma(s, i) ==
    LET before == {j \in 1..(i - 1) : ~InRanges(s[j], UnicodeCaseIgnorable)}
        after  == {j \in (i + 1)..Len(s) : ~InRanges(s[j], UnicodeCaseIgnorable)}
    IN /\ before # {}
       /\ InRanges(s[CHOOSE j \in before : \A k \in before : k <= j], UnicodeCased)
       /\ \/ after = {}
          \/ ~InRanges(s[CHOOSE j \in after : \A k \in after : j <= k], UnicodeCased)

RECURSIVE LowerFrom(_, _)
LowerFrom(s, i) ==
    IF i > Len(s) THEN <<>>
    ELSE (IF s[i] = 931 THEN <<IF FinalSigma(s, i) THEN 962 ELSE 963>>
          ELSE LowerChar(s[i]))
         \o LowerFrom(s, i + 1)

\* str.lower()
Lower(s) == LowerFrom(s, 1)

\* the characters str.strip() removes: the code points str.isspace() holds for
Whitespace ==
    (9..13) \cup (28..32) \cup {133, 160, 5760} \cup (8192..8202)
    \cup {8232, 8233, 8239, 8287, 12288}

RECURSIVE LStrip(_)
LStrip(s) ==
    IF s # <<>> /\ Head(s) \in Whitespace THEN LStrip(Tail(s)) ELSE s

RECURSIVE RStrip(_)
RStrip(s) ==
    IF s # <<>> /\ s[Len(s)] \in Whitespace
    THEN RStrip(SubSeq(s, 1, Len(s) - 1)) ELSE s

Strip(s) == RStrip(LStrip(s))

\* " ".join(parts)
RECURSIVE Join(_)
Join(parts) ==
    IF parts = <<>> THEN <<>>
    ELSE IF Len(parts) = 1 THEN parts[1]
    ELSE parts[1] \o <<32>> \o Join(Tail(parts))

\* decimal digits of a natural number, as f"{n}" prints them
RECURSIVE Digits(_)
Digits(n) == IF n < 10 THEN <<48 + n>> ELSE Digits(n \div 10) \o <<48 + (n % 10)>>

\* f"{n}" for an int
IntStr(n) == IF n < 0 THEN <<45>> \o Digits(-n) ELSE Digits(n)

\* the ranges <<lo, hi>> of the decimal digits (category Nd); the digit at
\* code point c of a range has the value (c - lo) % 10
UnicodeDecimalDigits ==
    {<<48, 57>>, <<1632, 1641>>, <<1776, 1785>>, <<1984, 1993>>,
     <<2406, 2415>>, <<2534, 2543>>, <<2662, 2671>>, <<2790, 2799>>,
     <<2918, 2927>>, <<3046, 3055>>, <<3174, 3183>>, <<3302, 3311>>,
     <<3430, 3439>>, <<3558, 3567>>, <<3664, 3673>>, <<3792, 3801>>,
     <<3872, 3881>>, <<4160, 4169>>, <<4240, 4249>>, <<6112, 6121>>,
     <<6160, 6169>>, <<6470, 6479>>, <<6608, 6617>>, <<6784, 6793>>,
     <<6800, 6809>>, <<6992, 7001>>, <<7088, 7097>>, <<7232, 7241>>,
     <<7248, 7257>>, <<42528, 42537>>, <<43216, 43225>>, <<43264, 43273>>,
     <<43472, 43481>>, <<43504, 43513>>, <<43600, 43609>>, <<44016, 44025>>,
     <<65296, 65305>>, <<66720, 66729>>, <<68912, 68921>>, <<69734, 69743>>,
     <<69872, 69881>>, <<69942, 69951>>, <<70096, 70105>>, <<70384, 70393>>,
     <<70736, 70745>>, <<70864, 70873>>, <<71248, 71257>>, <<71360, 71369>>,
     <<71472, 71481>>, <<71904, 71913>>, <<72016, 72025>>, <<72784, 72793>>,
     <<73040, 73049>>, <<73120, 73129>>, <<92768, 92777>>, <<92864, 92873>>,
     <<93008, 93017>>, <<120782, 120831>>, <<123200, 123209>>,
     <<123632, 123641>>, <<125264, 125273>>, <<130032, 130041>>}

IsDigit(c) == InRanges(c, UnicodeDecimalDigits)

DigitValue(c) ==
    (c - (CHOOSE r \in UnicodeDecimalDigits : r[1] <= c /\ c <= r[2])[1]) % 10

\* the value of a digit string, underscores passed over
RECURSIVE DigitsValueOf(_)
DigitsValueOf(s) ==
    IF s = <<>> THEN 0
    ELSE IF s[Len(s)] = 95 THEN DigitsValueOf(SubSeq(s, 1, Len(s) - 1))
    ELSE 10 * DigitsValueOf(SubSeq(s, 1, Len(s) - 1)) + DigitValue(s[Len(s)])

\* leading zeros add nothing to the value
DigitsValue(s) ==
    LET nonzero == {i \in 1..Len(s) : s[i] # 95 /\ DigitValue(s[i]) # 0} IN
    IF nonzero = {} THEN 0
    ELSE DigitsValueOf(SubSeq(s, CHOOSE i \in nonzero : \A j \in nonzero : i <= j,
                              Len(s)))

\* the digit strings int() reads: decimal digits of any script, single
\* underscores allowed between two digits
IsDigits(s) ==
    /\ s # <<>>
    /\ \A i \in 1..Len(s) :
          \/ IsDigit(s[i])
          \/ s[i] = 95 /\ 1 < i /\ i < Len(s) /\ IsDigit(s[i - 1]) /\ IsDigit(s[i + 1])

\* the white space int() ignores around the number: str.isspace() less the
\* separators U+001C..U+001F
IntWhitespace == Whitespace \ (28..31)

RECURSIVE IntStrip(_)
IntStrip(s) ==
    IF s # <<>> /\ Head(s) \in IntWhitespace THEN IntStrip(Tail(s))
    ELSE IF s # <<>> /\ s[Len(s)] \in IntWhitespace
    THEN IntStrip(SubSeq(s, 1, Len(s) - 1))
    ELSE s

\* sys.int_info.default_max_str_digits: int() raises ValueError for a
\* string of more digits (CPython 3.11)
default_max_str_digits == 4300

\* the digits the limit counts: every digit, leading zeros too, and no
\* underscore, sign or white space
CountDigits(s) == Cardinality({i \in 1..Len(s) : IsDigit(s[i])})

\* int(s): an optional sign and a digit string, white space allowed around
\* them; None stands for ValueError
ParseInt(raw) ==
    LET s == IntStrip(raw) IN
    IF CountDigits(s) > default_max_str_digits THEN None
    ELSE IF s # <<>> /\ Head(s) = 45 /\ IsDigits(Tail(s)) THEN Some(-DigitsValue(Tail(s)))
    ELSE IF s # <<>> /\ Head(s) = 43 /\ IsDigits(Tail(s)) THEN Some(DigitsValue(Tail(s)))
    ELSE IF IsDigits(s) THEN Some(DigitsValue(s))
    ELSE None

----------------------------------------------------------------------------
(* sanitize_charset *)

\* The characters CHARSET_ALLOWED_PATTERN does not remove.
CHARSET_ALLOWED_PATTERN ==
    (48..57) \cup (65..90) \cup (97..122) \cup (19968..40959)
    \cup {65292, 12290, 65281, 65311, 65306, 65307, 12289}
    \cup {8220, 8221, 8216, 8217, 65288, 65289}
    \cup {12298, 12299, 12296, 12297, 183, 8212}
    \cup {95, 37, 43, 45, 61}

sanitize_charset_spaces_only(value) ==
    IF ~TruthyStr(value) THEN None
    ELSE LET clean == DropSeq(Val(value), {32})
         IN IF clean # <<>> THEN Some(clean) ELSE None

sanitize_charset(value) ==
    IF ~TruthyStr(value) THEN None
    ELSE LET clean == DropSeq(FilterSeq(Val(value), CHARSET_ALLOWED_PATTERN), {32})
         IN IF clean # <<>> THEN Some(clean) ELSE None

----------------------------------------------------------------------------
(* determine_psm *)

single_char == <<115, 105, 110, 103, 108, 101, 95, 99, 104, 97, 114>>

single_line == <<115, 105, 110, 103, 108, 101, 95, 108, 105, 110, 101>>

single_block == <<115, 105, 110, 103, 108, 101, 95, 98, 108, 111, 99, 107>>

Min(a, b) == IF a <= b THEN a ELSE b

Max(a, b) == IF a >= b THEN a ELSE b

\* the geometry branch: aspect = width / height
psm_from_geometry(width, height) ==
    IF height = 0 \/ width = 0 THEN 6
    ELSE IF Min(width, height) < 200 THEN 10
    ELSE IF width >= 2 * height THEN 7
    ELSE IF 2 * width <= height THEN 5
    ELSE 6

psm_from_mode(img, m) ==
    LET normalized_mode == Lower(IF TruthyStr(m) THEN Val(m) ELSE <<>>) IN
    IF normalized_mode = single_char THEN 10
    ELSE IF normalized_mode = single_line THEN 7
    ELSE IF normalized_mode = single_block THEN 6
    ELSE psm_from_geometry(img.w, img.h)

determine_psm(img, user_psm, m) ==
    IF TruthyInt(user_psm) THEN Val(user_psm) ELSE psm_from_mode(img, m)

----------------------------------------------------------------------------
(* build_tesseract_config *)

TESSERACT_CONFIG == <<45, 45, 111, 101, 109, 32, 49, 32, 45, 45, 112, 115, 109, 32, 54>>

PsmOption == <<45, 45, 112, 115, 109, 32>>

WhitelistOption ==
    <<45, 99, 32, 116, 101, 115, 115, 101, 100, 105, 116, 95, 99, 104, 97, 114, 95,
      119, 104, 105, 116, 101, 108, 105, 115, 116, 61>>

BlacklistOption ==
    <<45, 99, 32, 116, 101, 115, 115, 101, 100, 105, 116, 95, 99, 104, 97, 114, 95,
      98, 108, 97, 99, 107, 108, 105, 115, 116, 61>>

build_tesseract_config(p, wl, bl) ==
    LET config_parts ==
            <<Strip(TESSERACT_CONFIG), PsmOption \o IntStr(p)>>
            \o (IF TruthyStr(wl) THEN <<WhitelistOption \o Val(wl)>> ELSE <<>>)
            \o (IF TruthyStr(bl) THEN <<BlacklistOption \o Val(bl)>> ELSE <<>>)
    IN Join(SelectSeq(config_parts, LAMBDA part : part # <<>>))

----------------------------------------------------------------------------
(* Python float: IEEE 754 binary64, round to nearest, ties to even.         *)
(* A float x >= 0 is <<m, e>>: x = m * 2^e with m odd, m written by its     *)
(* base-2^15 digits, least significant first; 0.0 is << <<>>, 0 >>.         *)
(* Negative numbers, subnormals, infinities and NaN do not arise from the   *)
(* confidences the handler keeps (each above 0) and are not represented.    *)

Base == 2^15

\* the digits of a natural number
RECURSIVE BigOf(_)
BigOf(n) == IF n = 0 THEN <<>> ELSE <<n % Base>> \o BigOf(n \div Base)

\* without leading zero digits
RECURSIVE Trim(_)
Trim(a) == IF a # <<>> /\ a[Len(a)] = 0 THEN Trim(SubSeq(a, 1, Len(a) - 1)) ELSE a

RECURSIVE BigAddCarry(_, _, _)
BigAddCarry(a, b, carry) ==
    IF a = <<>> /\ b = <<>> THEN (IF carry = 0 THEN <<>> ELSE <<carry>>)
    ELSE LET t == (IF a = <<>> THEN 0 ELSE Head(a))
                  + (IF b = <<>> THEN 0 ELSE Head(b)) + carry
         IN <<t % Base>> \o BigAddCarry(IF a = <<>> THEN a ELSE Tail(a),
                                        IF b = <<>> THEN b ELSE Tail(b),
                                        t \div Base)

BigAdd(a, b) == BigAddCarry(a, b, 0)

\* a * f + carry for a factor f < 2^15
RECURSIVE BigMulCarry(_, _, _)
BigMulCarry(a, f, carry) ==
    IF a = <<>> THEN (IF carry = 0 THEN <<>> ELSE <<carry>>)
    ELSE LET t == Head(a) * f + carry
         IN <<t % Base>> \o BigMulCarry(Tail(a), f, t \div Base)

\* <<a div d, a mod d>> for a divisor 0 < d < 2^16
RECURSIVE BigDivMod(_, _)
BigDivMod(a, d) ==
    IF a = <<>> THEN << <<>>, 0 >>
    ELSE LET high == BigDivMod(Tail(a), d)
             t    == high[2] * Base + Head(a)
         IN << <<t \div d>> \o high[1], t % d >>

\* a * b
RECURSIVE BigMul(_, _)
BigMul(a, b) ==
    IF a = <<>> \/ b = <<>> THEN <<>>
    ELSE Trim(BigAdd(BigMulCarry(a, Head(b), 0), <<0>> \o BigMul(a, Tail(b))))

\* the value of a digit sequence, below 2^31
RECURSIVE BigValue(_)
BigValue(a) == IF a = <<>> THEN 0 ELSE Head(a) + Base * BigValue(Tail(a))

\* a * 2^k
BigShl(a, k) ==
    IF a = <<>> THEN a
    ELSE [i \in 1..(k \div 15) |-> 0] \o BigMulCarry(a, 2^(k % 15), 0)

\* a div 2^k
BigShr(a, k) ==
    Trim(BigDivMod(SubSeq(a, (k \div 15) + 1, Len(a)), 2^(k % 15))[1])

RECURSIVE BigLess(_, _)
BigLess(a, b) ==
    IF Len(a) # Len(b) THEN Len(a) < Len(b)
    ELSE IF a = <<>> THEN FALSE
    ELSE IF a[Len(a)] # b[Len(b)] THEN a[Len(a)] < b[Len(b)]
    ELSE BigLess(SubSeq(a, 1, Len(a) - 1), SubSeq(b, 1, Len(b) - 1))

BigOdd(a) == a # <<>> /\ a[1] % 2 = 1

\* the number of binary digits
RECURSIVE BitLen(_)
BitLen(n) == IF n = 0 THEN 0 ELSE 1 + BitLen(n \div 2)

BigBits(a) == IF a = <<>> THEN 0 ELSE 15 * (Len(a) - 1) + BitLen(a[Len(a)])

\* the number of trailing zero bits of a # 0
RECURSIVE BigTrailingZeros(_)
BigTrailingZeros(a) ==
    IF Head(a) = 0 THEN 15 + BigTrailingZeros(Tail(a))
    ELSE IF Head(a) % 2 = 1 THEN 0
    ELSE 1 + BigTrailingZeros(<<Head(a) \div 2>>)

FloatZero == << <<>>, 0 >>

\* m * 2^e with an odd m
Normalize(m, e) ==
    IF m = <<>> THEN FloatZero
    ELSE LET z == BigTrailingZeros(m) IN <<BigShr(m, z), e + z>>

\* the float nearest to m * 2^e, or to a number strictly between m * 2^e
\* and (m + 1) * 2^e when inexact (then m has more than 54 bits): 53
\* significant bits are kept, a tie goes to the even neighbour
RoundFloat(m, e, inexact) ==
    LET cut == BigBits(m) - 53 IN
    IF cut <= 0 THEN Normalize(m, e)
    ELSE LET q         == BigShr(m, cut)
             r         == BigShr(m, cut - 1)
             round_bit == BigOdd(r)
             sticky    == inexact \/ BigShl(r, cut - 1) # m
             up        == round_bit /\ (sticky \/ BigOdd(q))
         IN Normalize(IF up THEN BigAdd(q, <<1>>) ELSE q, e + cut)

\* float(n) for an int 0 <= n < 2^31
FloatOfInt(n) == Normalize(BigOf(n), 0)

\* x + y
FloatAdd(x, y) ==
    LET e == IF x[2] <= y[2] THEN x[2] ELSE y[2]
    IN RoundFloat(BigAdd(BigShl(x[1], x[2] - e), BigShl(y[1], y[2] - e)), e, FALSE)

\* x / d for an int 0 < d < 2^16 (a list length, or 100.0)
FloatDiv(x, d) ==
    IF x = FloatZero THEN FloatZero
    ELSE LET p  == 56 + BitLen(d)
             qr == BigDivMod(BigShl(x[1], p), d)
         IN RoundFloat(Trim(qr[1]), x[2] - p, qr[2] # 0)

\* x * n for an int 0 <= n < 2^31
FloatMul(x, n) == RoundFloat(BigMul(x[1], BigOf(n)), x[2], FALSE)

\* the int nearest to x, a tie going to the even one (cvRound, as cv2.resize
\* rounds the scaled size)
FloatRound(x) ==
    IF x[2] >= 0 THEN BigValue(BigShl(x[1], x[2]))
    ELSE LET cut       == -x[2]
             q         == BigShr(x[1], cut)
             r         == BigShr(x[1], cut - 1)
             round_bit == BigOdd(r)
             sticky    == BigShl(r, cut - 1) # x[1]
             up        == round_bit /\ (sticky \/ BigOdd(q))
         IN BigValue(IF up THEN BigAdd(q, <<1>>) ELSE q)

\* x < y
FloatLess(x, y) ==
    LET e == IF x[2] <= y[2] THEN x[2] ELSE y[2]
    IN BigLess(BigShl(x[1], x[2] - e), BigShl(y[1], y[2] - e))

\* sum(values) of floats: added left to right, each addition rounded
RECURSIVE SumFloats(_)
SumFloats(s) ==
    IF s = <<>> THEN FloatZero
    ELSE FloatAdd(SumFloats(SubSeq(s, 1, Len(s) - 1)), s[Len(s)])

\* sum(values) / len(values) if values else 0.0
MeanOf(values) ==
    IF values = <<>> THEN FloatZero ELSE FloatDiv(SumFloats(values), Len(values))

----------------------------------------------------------------------------
(* accumulate_ocr_lines *)

\* f"region_{region_idx}"
RegionTag(idx) == <<114, 101, 103, 105, 111, 110, 95>> \o IntStr(idx)

\* float(ocr_data["conf"][i]), 0.0 on ValueError / TypeError (None here)
ParseConf(c) == IF c = None THEN 0 ELSE Val(c)

\* the `continue` test of the loop
SkipsToken(tok) == tok.level # 5 \/ ParseConf(tok.conf) <= 0 \/ Strip(tok.text) = <<>>

TokenKey(tok, region_tag) == <<region_tag, tok.block_num, tok.par_num, tok.line_num>>

\* the corners (x1, y1) and (x3, y3) of the token in image coordinates
TokenBox(tok, offset_x, offset_y) ==
    LET left == tok.left + offset_x
        top  == tok.top + offset_y
    IN [x1 |-> left, y1 |-> top, x3 |-> left + tok.width, y3 |-> top + tok.height]

MergeBoxLeftEdge(bbox, b) ==
    [min_x |-> Min(bbox.min_x, b.x1), min_y |-> Min(bbox.min_y, b.y1),
     max_x |-> Max(bbox.max_x, b.x1), max_y |-> Max(bbox.max_y, b.y3)]

\* the else-branch: the line's box grows to cover the token
MergeBox(bbox, b) ==
    [min_x |-> Min(bbox.min_x, b.x1), min_y |-> Min(bbox.min_y, b.y1),
     max_x |-> Max(bbox.max_x, b.x3), max_y |-> Max(bbox.max_y, b.y3)]

\* one iteration of the loop over ocr_data["text"]
AccumulateToken(container, tok, offset_x, offset_y, region_tag) ==
    IF SkipsToken(tok) THEN container
    ELSE LET text == Strip(tok.text)
             conf == ParseConf(tok.conf)
             b    == TokenBox(tok, offset_x, offset_y)
             key  == TokenKey(tok, region_tag)
         IN IF key \notin DOMAIN container
            THEN [k \in DOMAIN container \cup {key} |->
                    IF k = key
                    THEN [text |-> text, confidences |-> <<conf>>,
                          bbox |-> [min_x |-> b.x1, min_y |-> b.y1,
                                    max_x |-> b.x3, max_y |-> b.y3]]
                    ELSE container[k]]
            ELSE [container EXCEPT
                    ![key] = [text |-> @.text \o <<32>> \o text,
                              confidences |-> Append(@.confidences, conf),
                              bbox |-> MergeBox(@.bbox, b)]]

RECURSIVE accumulate_ocr_lines(_, _, _, _, _)
accumulate_ocr_lines(ocr_data, offset_x, offset_y, region_tag, container) ==
    IF ocr_data = <<>> THEN container
    ELSE accumulate_ocr_lines(
            Tail(ocr_data), offset_x, offset_y, region_tag,
            AccumulateToken(container, Head(ocr_data), offset_x, offset_y, region_tag))

----------------------------------------------------------------------------
(* lines_to_results *)

\* Python's < on str: by code point, a proper prefix first
RECURSIVE StrLess(_, _)
StrLess(a, b) ==
    IF b = <<>> THEN FALSE
    ELSE IF a = <<>> THEN TRUE
    ELSE IF Head(a) # Head(b) THEN Head(a) < Head(b)
    ELSE StrLess(Tail(a), Tail(b))

\* Python's < on the key tuples (str, int, int, int)
KeyLess(k1, k2) ==
    \/ StrLess(k1[1], k2[1])
    \/ k1[1] = k2[1] /\ k1[2] < k2[2]
    \/ k1[1] = k2[1] /\ k1[2] = k2[2] /\ k1[3] < k2[3]
    \/ k1[1] = k2[1] /\ k1[2] = k2[2] /\ k1[3] = k2[3] /\ k1[4] < k2[4]

\* sorted(lines.keys())
RECURSIVE SortedKeys(_)
SortedKeys(keys) ==
    IF keys = {} THEN <<>>
    ELSE LET first == CHOOSE k \in keys : \A o \in keys \ {k} : KeyLess(k, o)
         IN <<first>> \o SortedKeys(keys \ {first})

\* sum(confidences) / len(confidences) if confidences else 0.0; the
\* confidences are floats holding the engine's integers
avg_confidence(confidences) ==
    MeanOf([i \in 1..Len(confidences) |-> FloatOfInt(confidences[i])])

LineResult(line_data) ==
    LET bbox == line_data.bbox IN
    [text |-> line_data.text,
     confidence |-> FloatDiv(avg_confidence(line_data.confidences), 100),
     text_region |-> << <<bbox.min_x, bbox.min_y>>, <<bbox.max_x, bbox.min_y>>,
                        <<bbox.max_x, bbox.max_y>>, <<bbox.min_x, bbox.max_y>> >>]

\* returns [results, confidences]
lines_to_results(container) ==
    LET keys == SortedKeys(DOMAIN container)
        results == [i \in 1..Len(keys) |-> LineResult(container[keys[i]])]
    IN [results |-> results,
        confidences |-> [i \in 1..Len(keys) |-> results[i].confidence]]

----------------------------------------------------------------------------
(* run_ocr_with_config *)

EmptyLines == [k \in {} |-> <<>>]

\* lines after the loop has handled regions 1..n (region_idx 0..n-1);
\* outs[i] is what pytesseract.image_to_data returned for region i
RECURSIVE LinesAfter(_, _, _)
LinesAfter(regs, outs, n) ==
    IF n = 0 THEN EmptyLines
    ELSE accumulate_ocr_lines(outs[n], regs[n][1], regs[n][2], RegionTag(n - 1),
                              LinesAfter(regs, outs, n - 1))

run_ocr_with_config(regs, outs) == lines_to_results(LinesAfter(regs, outs, Len(regs)))

----------------------------------------------------------------------------
(* preprocess_image and detect_text_regions: the parts that are this       *)
(* repository's code, over what cv2 returns                                *)

\* the size of the image preprocess_image returns (deskew keeps the size):
\* scale = 800 / min_dim is a float, and cv2.resize rounds width * scale and
\* height * scale, each a float product, to the nearest int
preprocess_image(img) ==
    LET min_dim == Min(img.h, img.w)
        scale   == FloatDiv(FloatOfInt(800), min_dim)
    IN IF min_dim < 800
       THEN [w |-> FloatRound(FloatMul(scale, img.w)),
             h |-> FloatRound(FloatMul(scale, img.h))]
       ELSE [w |-> img.w, h |-> img.h]

\* box[1], box[0] of the sort key
RegionBefore(a, b) == a[2] < b[2] \/ (a[2] = b[2] /\ a[1] < b[1])

\* list.sort is stable: a region goes after those that do not sort after it
RECURSIVE InsertRegion(_, _)
InsertRegion(sorted, r) ==
    IF sorted = <<>> THEN <<r>>
    ELSE IF RegionBefore(r, Head(sorted)) THEN <<r>> \o sorted
    ELSE <<Head(sorted)>> \o InsertRegion(Tail(sorted), r)

RECURSIVE SortRegions(_)
SortRegions(rs) ==
    IF rs = <<>> THEN <<>>
    ELSE InsertRegion(SortRegions(SubSeq(rs, 1, Len(rs) - 1)), rs[Len(rs)])

\* rects: cv2.boundingRect of each contour, in cv2's order
detect_text_regions(rects) ==
    SortRegions(SelectSeq(rects, LAMBDA box : ~(box[3] * box[4] < 5000)))

----------------------------------------------------------------------------
(* Bounds and sample inputs *)

\* longest allow-list / deny-list a request carries
MaxCharsetLen == 2

\* largest left / top coordinate of a token inside its region
MaxCoord == 1

\* tokens handed to accumulate_ocr_lines in the aggregation study
MaxTokens == 3

\* regions of one run_ocr_with_config call in the ordering study
MaxRegions == 11

\* '<', 'a'
CharsetAlphabet == {60, 97}

RECURSIVE SeqsUpTo(_, _)
SeqsUpTo(S, n) ==
    IF n = 0 THEN {<<>>}
    ELSE LET shorter == SeqsUpTo(S, n - 1)
         IN shorter \cup {Append(s, c) : s \in {t \in shorter : Len(t) = n - 1}, c \in S}

CharsetInputs == {None} \cup {Some(s) : s \in SeqsUpTo(CharsetAlphabet, MaxCharsetLen)}

\* the uploads: a photo, a small banner, a thumbnail (scaled by 800 / 192
\* its width is 812.5000000000001 in floats and becomes 813); `loadable`
\* is FALSE for a file whose header parses (Image.open succeeds) and whose
\* pixel data does not (any later load raises)
Uploads ==
    {[w |-> 1000, h |-> 900, loadable |-> TRUE],
     [w |-> 400, h |-> 200, loadable |-> TRUE],
     [w |-> 195, h |-> 192, loadable |-> TRUE],
     [w |-> 195, h |-> 192, loadable |-> FALSE]}

\* what cv2.findContours / boundingRect find: nothing, a speck, one line,
\* two lines of a tall page found bottom-up
ContourRects ==
    {<<>>,
     << <<5, 5, 10, 10>> >>,
     << <<0, 0, 100, 50>> >>,
     << <<10, 850, 120, 50>>, <<5, 5, 10, 10>>, <<0, 0, 100, 50>> >>}

Word(txt, c, l, t, w, h, ln) ==
    [level |-> 5, text |-> txt, conf |-> Some(c), left |-> l, top |-> t,
     width |-> w, height |-> h, block_num |-> 1, par_num |-> 1, line_num |-> ln]

\* what image_to_data returns for one region: nothing, a page-level row
\* and a doubtful word, two words of one line averaging 0.5, a sure word,
\* three lines of confidence 0.97, 0.12 and 0.41 (their float mean is
\* 0.49999999999999994)
OcrOutputs ==
    {<<>>,
     <<[Word(<<>>, -1, 0, 0, 100, 50, 0) EXCEPT !.level = 1],
       Word(<<97>>, 20, 1, 2, 8, 9, 1)>>,
     <<Word(<<97, 32>>, 20, 1, 2, 8, 9, 1), Word(<<98>>, 80, 12, 1, 8, 9, 1)>>,
     <<Word(<<99>>, 90, 3, 4, 8, 9, 1)>>,
     <<Word(<<100>>, 97, 0, 0, 8, 9, 1), Word(<<101>>, 12, 0, 10, 8, 9, 2),
       Word(<<102>>, 41, 0, 20, 8, 9, 3)>>}

\* what image_to_string returns: nothing, white space (an ideographic
\* space and a newline), a word
TextOutputs == {<<>>, <<12288, 10>>, <<104, 105, 10>>}

\* "10"
QueryTen == <<49, 48>>

Requests ==
    [mode : {None}, psm : {None},
     whitelist : CharsetInputs, blacklist : {None},
     query_mode : {None}, query_psm : {None, Some(QueryTen)},
     query_whitelist : {None}, query_blacklist : {None, Some(<<59, 98, 32>>)}]

----------------------------------------------------------------------------
(* predict_ocr_system *)

\* float(os.getenv("OCR_FALLBACK_THRESHOLD", "0.5")) with the variable unset:
\* 0.5 = 1 * 2^-1
fallback_threshold == << <<1>>, -1 >>

NoImage == [w |-> 0, h |-> 0]

NoPass == [results |-> <<>>, confidences |-> <<>>]

NoResponse == [status |-> 0, msg |-> "", results |-> <<>>, cause |-> ""]

handler_vars ==
    <<request, mode, psm, whitelist, blacklist, sanitized_whitelist,
      sanitized_blacklist, original_image, image, binary_map, selected_psm,
      effective_config, last_config_used, mean_confidence, engine_calls,
      initial_pass, retry_pass, whole_text, response>>

run_vars == <<lines, region_idx, merged>>

vars == <<pc, handler_vars, regions, formatted_results, confidence_values, run_vars>>

HandlerIdle ==
    /\ mode = None /\ psm = None /\ whitelist = None /\ blacklist = None
    /\ sanitized_whitelist = None /\ sanitized_blacklist = None
    /\ original_image = NoImage /\ image = NoImage /\ binary_map = ""
    /\ selected_psm = 0 /\ effective_config = <<>> /\ last_config_used = <<>>
    /\ mean_confidence = FloatZero /\ engine_calls = <<>>
    /\ initial_pass = NoPass /\ retry_pass = None /\ whole_text = None
    /\ response = NoResponse

RunIdle == lines = EmptyLines /\ region_idx = 0 /\ merged = {}

Init ==
    /\ pc = "start"
    /\ request \in Requests
    /\ HandlerIdle
    /\ regions = <<>> /\ formatted_results = <<>> /\ confidence_values = <<>>
    /\ RunIdle

\* except Exception as e: raise HTTPException(status_code=500, ...)
Raise(stage) ==
    /\ pc' = "done"
    /\ response' = [status |-> 500, msg |-> "OCR processing failed",
                    results |-> <<>>, cause |-> stage]

\* the query parameters override the form fields; the lists are sanitized
ReadParams ==
    /\ pc = "start"
    /\ mode' = IF TruthyStr(request.query_mode) THEN request.query_mode
               ELSE request.mode
    /\ psm' = IF TruthyStr(request.query_psm)
                 /\ ParseInt(Val(request.query_psm)) # None
              THEN ParseInt(Val(request.query_psm))
              ELSE request.psm
    /\ LET wl == IF TruthyStr(request.query_whitelist)
                 THEN request.query_whitelist ELSE request.whitelist
           bl == IF TruthyStr(request.query_blacklist)
                 THEN request.query_blacklist ELSE request.blacklist
       IN /\ whitelist' = wl
          /\ blacklist' = bl
          /\ sanitized_whitelist' = sanitize_charset(wl)
          /\ sanitized_blacklist' = sanitize_charset(bl)
    /\ pc' = "params_read"
    /\ UNCHANGED <<request, original_image, image, binary_map, selected_psm,
                   effective_config, last_config_used, mean_confidence,
                   engine_calls, initial_pass, retry_pass, whole_text, response,
                   regions, formatted_results, confidence_values, run_vars>>

\* images.read() and Image.open
OpenImage ==
    /\ pc = "params_read"
    /\ \/ /\ \E up \in Uploads : original_image' = up
          /\ pc' = "opened"
          /\ UNCHANGED response
       \/ /\ Raise("decode")
          /\ UNCHANGED original_image
    /\ UNCHANGED <<request, mode, psm, whitelist, blacklist, sanitized_whitelist,
                   sanitized_blacklist, image, binary_map, selected_psm,
                   effective_config, last_config_used, mean_confidence,
                   engine_calls, initial_pass, retry_pass, whole_text,
                   regions, formatted_results, confidence_values, run_vars>>

\* try: preprocess_image ... except: original_image.convert("L")
Preprocess ==
    /\ pc = "opened"
    /\ \/ /\ original_image.loadable
          /\ Min(original_image.w, original_image.h) > 0
          /\ image' = preprocess_image(original_image)
          /\ binary_map' = "binary"
          /\ pc' = "preprocessed"
          /\ UNCHANGED response
       \/ /\ original_image.loadable
          /\ image' = [w |-> original_image.w, h |-> original_image.h]
          /\ binary_map' = "gray"
          /\ pc' = "preprocessed"
          /\ UNCHANGED response
       \/ /\ ~original_image.loadable
          /\ Raise("preprocess")
          /\ UNCHANGED <<image, binary_map>>
    /\ UNCHANGED <<request, mode, psm, whitelist, blacklist, sanitized_whitelist,
                   sanitized_blacklist, original_image, selected_psm,
                   effective_config, last_config_used, mean_confidence,
                   engine_calls, initial_pass, retry_pass, whole_text,
                   regions, formatted_results, confidence_values, run_vars>>

\* the contour rectangles cv2 can report for an image of this size
RectsWithin(img) ==
    {rects \in ContourRects :
        \A i \in 1..Len(rects) :
            rects[i][1] + rects[i][3] <= img.w /\ rects[i][2] + rects[i][4] <= img.h}

\* detect_text_regions, then the whole image when nothing was found
Segment ==
    /\ pc = "preprocessed"
    /\ \/ /\ \E rects \in RectsWithin(image) :
                LET found == detect_text_regions(rects) IN
                regions' = IF found = <<>> THEN << <<0, 0, image.w, image.h>> >>
                           ELSE found
          /\ pc' = "segmented"
          /\ UNCHANGED response
       \/ /\ Raise("segment")
          /\ UNCHANGED regions
    /\ UNCHANGED <<request, mode, psm, whitelist, blacklist, sanitized_whitelist,
                   sanitized_blacklist, original_image, image, binary_map,
                   selected_psm, effective_config, last_config_used,
                   mean_confidence, engine_calls, initial_pass, retry_pass,
                   whole_text, formatted_results, confidence_values, run_vars>>

\* determine_psm and build_tesseract_config
SelectConfig ==
    /\ pc = "segmented"
    /\ selected_psm' = determine_psm(image, psm, mode)
    /\ effective_config' =
          build_tesseract_config(determine_psm(image, psm, mode),
                                 sanitized_whitelist, sanitized_blacklist)
    /\ pc' = "configured"
    /\ UNCHANGED <<request, mode, psm, whitelist, blacklist, sanitized_whitelist,
                   sanitized_blacklist, original_image, image, binary_map,
                   last_config_used, mean_confidence, engine_calls, initial_pass,
                   retry_pass, whole_text, response, regions, formatted_results,
                   confidence_values, run_vars>>

\* the image_to_data calls of one run_ocr_with_config, for regions 1..n
DataCalls(pass, config, n) ==
    [i \in 1..n |-> [pass |-> pass, call |-> "image_to_data", region |-> i - 1,
                     config |-> config]]

\* the first run_ocr_with_config, last_config_used and the mean
InitialPass ==
    /\ pc = "configured"
    /\ \/ \E outs \in [1..Len(regions) -> OcrOutputs] :
            LET got == run_ocr_with_config(regions, outs) IN
            /\ formatted_results' = got.results
            /\ confidence_values' = got.confidences
            /\ mean_confidence' = MeanOf(got.confidences)
            /\ initial_pass' = got
            /\ last_config_used' = effective_config
            /\ engine_calls' = engine_calls
                    \o DataCalls("initial", effective_config, Len(regions))
            /\ pc' = "initial_done"
            /\ UNCHANGED response
       \/ \E n \in 1..Len(regions) :
            /\ engine_calls' = engine_calls \o DataCalls("initial", effective_config, n)
            /\ Raise("engine")
            /\ UNCHANGED <<formatted_results, confidence_values, mean_confidence,
                           initial_pass, last_config_used>>
    /\ UNCHANGED <<request, mode, psm, whitelist, blacklist, sanitized_whitelist,
                   sanitized_blacklist, original_image, image, binary_map,
                   selected_psm, effective_config, retry_pass, whole_text,
                   regions, run_vars>>

NeedsRetryAtOrBelow(results, mean, threshold, selected) ==
    (results = <<>> \/ ~FloatLess(threshold, mean)) /\ selected # 10

\* the condition of the `if` that guards the single-character retry
NeedsRetry(results, mean, threshold, selected) ==
    (results = <<>> \/ FloatLess(mean, threshold)) /\ selected # 10

RetryReplacesAlways(fallback_results) == TRUE

\* `if fallback_results:` the retry's records replace the initial ones
RetryReplaces(fallback_results) == fallback_results # <<>>

\* the retry with --psm 10 over the same regions
RetryPass ==
    /\ pc = "initial_done"
    /\ NeedsRetry(formatted_results, mean_confidence, fallback_threshold, selected_psm)
    /\ LET fallback_config ==
             build_tesseract_config(10, sanitized_whitelist, sanitized_blacklist)
       IN \/ \E outs \in [1..Len(regions) -> OcrOutputs] :
               LET got == run_ocr_with_config(regions, outs) IN
               /\ retry_pass' = Some(got)
               /\ engine_calls' = engine_calls
                       \o DataCalls("retry", fallback_config, Len(regions))
               /\ IF RetryReplaces(got.results)
                  THEN /\ formatted_results' = got.results
                       /\ confidence_values' = got.confidences
                       /\ last_config_used' = fallback_config
                       /\ mean_confidence' = MeanOf(got.confidences)
                  ELSE UNCHANGED <<formatted_results, confidence_values,
                                   last_config_used, mean_confidence>>
               /\ pc' = "retry_done"
               /\ UNCHANGED response
          \/ \E n \in 1..Len(regions) :
               /\ engine_calls' = engine_calls \o DataCalls("retry", fallback_config, n)
               /\ Raise("engine")
               /\ UNCHANGED <<formatted_results, confidence_values,
                              last_config_used, mean_confidence, retry_pass>>
    /\ UNCHANGED <<request, mode, psm, whitelist, blacklist, sanitized_whitelist,
                   sanitized_blacklist, original_image, image, binary_map,
                   selected_psm, effective_config, initial_pass, whole_text,
                   regions, run_vars>>

\* the `if` is not taken
SkipRetry ==
    /\ pc = "initial_done"
    /\ ~NeedsRetry(formatted_results, mean_confidence, fallback_threshold, selected_psm)
    /\ pc' = "retry_done"
    /\ UNCHANGED <<handler_vars, regions, formatted_results, confidence_values,
                   run_vars>>

WholeImageRecordTransposed(text, img) ==
    [text |-> text, confidence |-> << <<1>>, -1 >>,
     text_region |-> << <<0, 0>>, <<img.h, 0>>, <<img.h, img.w>>, <<0, img.w>> >>]

\* the record synthesized from image_to_string's text
WholeImageRecord(text, img) ==
    [text |-> text, confidence |-> << <<1>>, -1 >>,
     text_region |-> << <<0, 0>>, <<img.w, 0>>, <<img.w, img.h>>, <<0, img.h>> >>]

\* `if not formatted_results:` image_to_string over the whole image
WholeImageFallback ==
    /\ pc = "retry_done"
    /\ formatted_results = <<>>
    /\ engine_calls' = Append(engine_calls,
            [pass |-> "whole", call |-> "image_to_string", region |-> 0,
             config |-> last_config_used])
    /\ \/ \E out \in TextOutputs :
            LET simple_text == Strip(out) IN
            /\ whole_text' = Some(out)
            /\ formatted_results' =
                  IF simple_text # <<>>
                  THEN Append(formatted_results, WholeImageRecord(simple_text, image))
                  ELSE formatted_results
            /\ pc' = "fallback_done"
            /\ UNCHANGED response
       \/ /\ Raise("engine")
          /\ UNCHANGED <<whole_text, formatted_results>>
    /\ UNCHANGED <<request, mode, psm, whitelist, blacklist, sanitized_whitelist,
                   sanitized_blacklist, original_image, image, binary_map,
                   selected_psm, effective_config, last_config_used,
                   mean_confidence, initial_pass, retry_pass, regions,
                   confidence_values, run_vars>>

\* response_data and the JSONResponse
ResponseData(results) ==
    [status |-> 200, msg |-> "Success",
     results |-> IF results # <<>> THEN <<results>> ELSE << <<>> >>,
     cause |-> ""]

Respond ==
    /\ \/ pc = "retry_done" /\ formatted_results # <<>>
       \/ pc = "fallback_done"
    /\ response' = ResponseData(formatted_results)
    /\ pc' = "done"
    /\ UNCHANGED <<request, mode, psm, whitelist, blacklist, sanitized_whitelist,
                   sanitized_blacklist, original_image, image, binary_map,
                   selected_psm, effective_config, last_config_used,
                   mean_confidence, engine_calls, initial_pass, retry_pass,
                   whole_text, regions, formatted_results, confidence_values,
                   run_vars>>

Next ==
    \/ ReadParams
    \/ OpenImage
    \/ Preprocess
    \/ Segment
    \/ SelectConfig
    \/ InitialPass
    \/ RetryPass
    \/ SkipRetry
    \/ WholeImageFallback
    \/ Respond

Spec == Init /\ [][Next]_vars

----------------------------------------------------------------------------
(* determine_psm on its own: the strategy for every kind of request *)

\* "7", "0", "x", "1_0", "12" in full-width digits, "SINGLE_LINE", "auto",
\* "single_bloc" and the Kelvin sign
QuerySeven == <<55>>

QueryZero == <<48>>

QueryLetter == <<120>>

UpperSingleLine == <<83, 73, 78, 71, 76, 69, 95, 76, 73, 78, 69>>

AutoMode == <<97, 117, 116, 111>>

QueryUnderscore == <<49, 95, 48>>

QueryFullWidth == <<65297, 65298>>

KelvinSingleBlock == <<115, 105, 110, 103, 108, 101, 95, 98, 108, 111, 99, 8490>>

PsmRequests ==
    [mode : {None, Some(<<>>), Some(single_char), Some(single_line),
             Some(single_block), Some(UpperSingleLine), Some(AutoMode),
             Some(KelvinSingleBlock)},
     psm : {None, Some(0), Some(3), Some(10)},
     whitelist : {None}, blacklist : {None},
     query_mode : {None, Some(single_block)},
     query_psm : {None, Some(<<>>), Some(QuerySeven), Some(QueryZero),
                  Some(QueryLetter), Some(QueryUnderscore), Some(QueryFullWidth)},
     query_whitelist : {None}, query_blacklist : {None}]

\* the sizes of the image handed to determine_psm
PsmImages ==
    {[w |-> 1000, h |-> 900], [w |-> 1600, h |-> 800], [w |-> 800, h |-> 1600],
     [w |-> 150, h |-> 100], [w |-> 1599, h |-> 800], [w |-> 200, h |-> 400]}

InitPsm ==
    /\ pc = "start"
    /\ request \in PsmRequests
    /\ mode = None /\ psm = None /\ whitelist = None /\ blacklist = None
    /\ sanitized_whitelist = None /\ sanitized_blacklist = None
    /\ original_image = NoImage /\ image \in PsmImages /\ binary_map = ""
    /\ selected_psm = 0 /\ effective_config = <<>> /\ last_config_used = <<>>
    /\ mean_confidence = FloatZero /\ engine_calls = <<>>
    /\ initial_pass = NoPass /\ retry_pass = None /\ whole_text = None
    /\ response = NoResponse
    /\ regions = <<>> /\ formatted_results = <<>> /\ confidence_values = <<>>
    /\ RunIdle

DeterminePsm ==
    /\ pc = "params_read"
    /\ selected_psm' = determine_psm(image, psm, mode)
    /\ pc' = "psm_done"
    /\ UNCHANGED <<request, mode, psm, whitelist, blacklist, sanitized_whitelist,
                   sanitized_blacklist, original_image, image, binary_map,
                   effective_config, last_config_used, mean_confidence,
                   engine_calls, initial_pass, retry_pass, whole_text, response,
                   regions, formatted_results, confidence_values, run_vars>>

NextPsm == ReadParams \/ DeterminePsm

SpecPsm == InitPsm /\ [][NextPsm]_vars

----------------------------------------------------------------------------
(* accumulate_ocr_lines on its own: tokens arrive one call at a time *)

\* two regions, the second away from the origin
AccRegions == << <<0, 0, 40, 20>>, <<5, 7, 40, 20>> >>

\* words of one line, anywhere in the region, flat or wide
AccWords ==
    {Word(<<32, 97>>, 90, l, t, w, 1, 1) : l \in 0..MaxCoord, t \in 0..MaxCoord,
                                          w \in {0, 2}}

\* rows the loop must skip: a line-level row, no confidence, confidence 0,
\* blank text (a space and an ideographic space)
AccNoise ==
    {[Word(<<97>>, 90, 30, 15, 9, 9, 1) EXCEPT !.level = 4],
     [Word(<<97>>, 90, 30, 15, 9, 9, 1) EXCEPT !.conf = None],
     Word(<<97>>, 0, 30, 15, 9, 9, 1),
     Word(<<32, 12288>>, 90, 30, 15, 9, 9, 1)}

\* a token the engine reports as a recognized word
IsWord(tok) ==
    /\ tok.level = 5
    /\ tok.conf # None /\ Val(tok.conf) > 0
    /\ \E i \in 1..Len(tok.text) : tok.text[i] \notin Whitespace

RECURSIVE CountTokens(_, _)
CountTokens(container, keys) ==
    IF keys = {} THEN 0
    ELSE LET k == CHOOSE x \in keys : TRUE
         IN Len(container[k].confidences) + CountTokens(container, keys \ {k})

InitAccum ==
    /\ pc = "accumulate"
    /\ request \in [mode : {None}, psm : {None}, whitelist : {None},
                    blacklist : {None}, query_mode : {None}, query_psm : {None},
                    query_whitelist : {None}, query_blacklist : {None}]
    /\ HandlerIdle
    /\ regions = AccRegions /\ formatted_results = <<>> /\ confidence_values = <<>>
    /\ RunIdle

\* accumulate_ocr_lines(ocr_data, rx, ry, f"region_{r}", lines) for a
\* one-row ocr_data
AccumulateCall ==
    /\ pc = "accumulate"
    /\ CountTokens(lines, DOMAIN lines) < MaxTokens
    /\ \E r \in 1..Len(regions), tok \in AccWords \cup AccNoise :
          /\ lines' = accumulate_ocr_lines(<<tok>>, regions[r][1], regions[r][2],
                                           RegionTag(r - 1), lines)
          /\ merged' = IF IsWord(tok) THEN merged \cup {<<r, tok>>} ELSE merged
    /\ UNCHANGED <<pc, handler_vars, regions, formatted_results,
                   confidence_values, region_idx>>

NextAccum == AccumulateCall

SpecAccum == InitAccum /\ [][NextAccum]_vars

----------------------------------------------------------------------------
(* run_ocr_with_config on its own: one region per step *)

\* n text lines stacked top to bottom
StackedRegions(n) == [i \in 1..n |-> <<0, 60 * (i - 1), 100, 50>>]

\* the text of a word names its place: a letter for the region ("A" is
\* region 0), then the block and the line as digits
PlaceText(idx, block, line) == <<65 + idx, 48 + block, 48 + line>>

PlacedWord(idx, block, line) ==
    [Word(PlaceText(idx, block, line), 90, 0, 10 * line, 8, 9, line)
        EXCEPT !.block_num = block]

\* a region holds nothing, or three lines the engine reports out of order
OrderOutputs(idx) ==
    {<<>>,
     <<PlacedWord(idx, 2, 1), PlacedWord(idx, 1, 2), PlacedWord(idx, 1, 1)>>}

InitOrder ==
    /\ pc = "run_loop"
    /\ request \in [mode : {None}, psm : {None}, whitelist : {None},
                    blacklist : {None}, query_mode : {None}, query_psm : {None},
                    query_whitelist : {None}, query_blacklist : {None}]
    /\ HandlerIdle
    /\ regions \in {StackedRegions(n) : n \in 1..MaxRegions}
    /\ formatted_results = <<>> /\ confidence_values = <<>>
    /\ RunIdle

\* one iteration of `for region_idx, (rx, ry, rw, rh) in enumerate(regions)`
RunRegion ==
    /\ pc = "run_loop"
    /\ region_idx < Len(regions)
    /\ \/ \E ocr_data \in OrderOutputs(region_idx) :
            /\ lines' = accumulate_ocr_lines(
                            ocr_data, regions[region_idx + 1][1],
                            regions[region_idx + 1][2], RegionTag(region_idx), lines)
            /\ region_idx' = region_idx + 1
            /\ pc' = "run_loop"
       \/ /\ pc' = "run_raised"
          /\ UNCHANGED <<lines, region_idx>>
    /\ UNCHANGED <<handler_vars, regions, formatted_results, confidence_values,
                   merged>>

\* return lines_to_results(lines)
RunFinish ==
    /\ pc = "run_loop"
    /\ region_idx = Len(regions)
    /\ formatted_results' = lines_to_results(lines).results
    /\ confidence_values' = lines_to_results(lines).confidences
    /\ pc' = "run_done"
    /\ UNCHANGED <<handler_vars, regions, run_vars>>

NextOrder == RunRegion \/ RunFinish

SpecOrder == InitOrder /\ [][NextOrder]_vars

----------------------------------------------------------------------------
(* Properties *)

CallsOf(pass) == {i \in 1..Len(engine_calls) : engine_calls[i].pass = pass}

Half == << <<1>>, -1 >>

\* the `if` that guards the retry has been evaluated
RetryDecided ==
    \/ pc \in {"retry_done", "fallback_done"}
    \/ pc = "done" /\ response.status = 200
    \/ pc = "done" /\ response.cause = "engine"
          /\ CallsOf("retry") \cup CallsOf("whole") # {}

InitialWasLow ==
    initial_pass.results = <<>> \/ FloatLess(MeanOf(initial_pass.confidences), Half)

\* C1: the psm-10 retry is attempted exactly when the initial pass produced
\* no records or a mean confidence (the float the handler computes)
\* strictly below 0.5, and the selected strategy is not 10; it never starts
\* before the initial pass is over and calls the engine at most once per
\* region.
C1_RetryIffLowConfidence ==
    /\ RetryDecided =>
          (CallsOf("retry") # {} <=> (InitialWasLow /\ selected_psm # 10))
    /\ ~RetryDecided => CallsOf("retry") = {}
    /\ \A i, j \in CallsOf("retry") :
          engine_calls[i].region = engine_calls[j].region => i = j

\* a doubtful initial result (three records of confidence 0.97, 0.12 and
\* 0.41, whose float mean is the float just below 0.5) was retried
C1_Witness ==
    /\ pc = "retry_done"
    /\ initial_pass.confidences =
          <<FloatDiv(FloatOfInt(97), 100), FloatDiv(FloatOfInt(12), 100),
            FloatDiv(FloatOfInt(41), 100)>>
    /\ FloatLess(MeanOf(initial_pass.confidences), Half)
    /\ selected_psm = 6
    /\ Cardinality(CallsOf("retry")) = Len(regions)

\* C2: once the retry has run, a retry that yields records replaces the
\* result list and the confidence list, whatever the two means are; a retry
\* that yields nothing leaves the initial pass's lists in place.  A request
\* that ends with such a retry answers with the retry's records.
C2_RetryReplacesUnconditionally ==
    /\ (pc = "retry_done" /\ retry_pass # None) =>
          IF Val(retry_pass).results # <<>>
          THEN /\ formatted_results = Val(retry_pass).results
               /\ confidence_values = Val(retry_pass).confidences
          ELSE /\ formatted_results = initial_pass.results
               /\ confidence_values = initial_pass.confidences
    /\ (pc = "done" /\ response.status = 200 /\ retry_pass # None
          /\ Val(retry_pass).results # <<>>) =>
          response.results = <<Val(retry_pass).results>>

\* the retry replaced a result of higher mean confidence
C2_Witness ==
    /\ pc = "retry_done"
    /\ retry_pass # None
    /\ initial_pass.results # <<>>
    /\ Val(retry_pass).results # <<>>
    /\ FloatLess(MeanOf(Val(retry_pass).confidences), MeanOf(initial_pass.confidences))
    /\ formatted_results = Val(retry_pass).results

EmptyAfterPasses ==
    /\ initial_pass.results = <<>>
    /\ retry_pass = None \/ Val(retry_pass).results = <<>>

\* C3: image_to_string is called at most once, and only when the initial
\* pass and any retry left the record list empty; a request that ends in
\* success called it exactly when the list was empty, and then answers with
\* one record of confidence 0.5 spanning the normalized image when the
\* stripped text is not empty, and with no record when it is.
C3_WholeImageFallback ==
    /\ Cardinality(CallsOf("whole")) <= 1
    /\ CallsOf("whole") # {} => EmptyAfterPasses /\ RetryDecided
    /\ (pc = "done" /\ response.status = 200) =>
          /\ CallsOf("whole") # {} <=> EmptyAfterPasses
          /\ CallsOf("whole") # {} <=> whole_text # None
          /\ whole_text # None =>
                LET text == Strip(Val(whole_text)) IN
                IF text # <<>>
                THEN response.results =
                        << <<[text |-> text, confidence |-> Half,
                              text_region |-> << <<0, 0>>, <<image.w, 0>>,
                                                 <<image.w, image.h>>,
                                                 <<0, image.h>> >>]>> >>
                ELSE response.results = << <<>> >>

\* the whole-image text became the only record of the answer
C3_Witness ==
    /\ pc = "done" /\ response.status = 200
    /\ whole_text # None /\ Strip(Val(whole_text)) # <<>>
    /\ retry_pass # None
    /\ image.w # image.h

\* C4: a request whose image decodes and in which no engine call fails
\* ends with status 200, "Success" and exactly one page holding the final
\* records (an empty page when nothing was found, never an empty outer
\* list).  An undecodable upload is set aside: it is meant to end in an
\* error.  A failure of the degraded conversion or of the segmentation is
\* not: it is meant to be recovered from, and the request to succeed.
C4_SuccessUnlessEngineFails ==
    (pc = "done" /\ response.cause \notin {"decode", "engine"}) =>
        /\ response.status = 200
        /\ response.msg = "Success"
        /\ Len(response.results) = 1
        /\ response.results[1] = formatted_results

\* C5: an undecodable upload ends with a client error (4xx).
C5_DecodeFailureIsClientError ==
    (pc = "done" /\ response.cause = "decode") => response.status \in 400..499

\* C6: a failure of preprocess_image or detect_text_regions never ends the
\* request; recognition starts with a usable image and some region.
C6_PreprocessAndSegmentNeverFatal ==
    /\ pc = "done" => response.cause \notin {"preprocess", "segment"}
    /\ pc = "configured" => regions # <<>> /\ image.w > 0 /\ image.h > 0

PlaceOf(text) == <<text[1] - 65, text[2] - 48, text[3] - 48>>

PlaceBefore(a, b) ==
    \/ a[1] < b[1]
    \/ a[1] = b[1] /\ a[2] < b[2]
    \/ a[1] = b[1] /\ a[2] = b[2] /\ a[3] < b[3]

\* C7: run_ocr_with_config emits the records in reading order: by region
\* index, then block, then line.
C7_ReadingOrder ==
    pc = "run_done" =>
        \A p, q \in 1..Len(formatted_results) :
            p < q => PlaceBefore(PlaceOf(formatted_results[p].text),
                                 PlaceOf(formatted_results[q].text))

HintOf(m) == IF m = None THEN <<>> ELSE Lower(Val(m))

\* C8: determine_psm returns the numeric strategy whenever the caller gave
\* one; without one a named hint decides; without either the geometry does.
C8_ExplicitPsmWins ==
    pc = "psm_done" =>
        IF psm # None THEN selected_psm = Val(psm)
        ELSE IF HintOf(mode) = single_char THEN selected_psm = 10
        ELSE IF HintOf(mode) = single_line THEN selected_psm = 7
        ELSE IF HintOf(mode) = single_block THEN selected_psm = 6
        ELSE selected_psm = psm_from_geometry(image.w, image.h)

RECURSIVE SplitOn(_, _)
SplitOn(s, sep) ==
    IF \A i \in 1..Len(s) : s[i] # sep THEN <<s>>
    ELSE LET k == CHOOSE i \in 1..Len(s) :
                    s[i] = sep /\ \A j \in 1..(i - 1) : s[j] # sep
         IN <<SubSeq(s, 1, k - 1)>> \o SplitOn(SubSeq(s, k + 1, Len(s)), sep)

HasPrefix(s, prefix) ==
    Len(s) >= Len(prefix) /\ SubSeq(s, 1, Len(prefix)) = prefix

\* the values given to option `name` in a configuration string
OptionValues(config, name) ==
    LET words == SplitOn(config, 32) IN
    {SubSeq(words[i], Len(name) + 1, Len(words[i])) :
        i \in {j \in 1..Len(words) : HasPrefix(words[j], name)}}

\* "tessedit_char_whitelist=", "tessedit_char_blacklist="
WhitelistName == SubSeq(WhitelistOption, 4, Len(WhitelistOption))

BlacklistName == SubSeq(BlacklistOption, 4, Len(BlacklistOption))

\* the permitted characters of a raw list, spaces excluded
Survivors(raw) ==
    IF raw = None THEN <<>>
    ELSE SelectSeq(Val(raw), LAMBDA c : c \in CHARSET_ALLOWED_PATTERN /\ c # 32)

Embedded(raw) == IF Survivors(raw) = <<>> THEN {} ELSE {Survivors(raw)}

\* C9: every engine call's configuration string embeds, for each of the two
\* lists, exactly the permitted characters of the caller's list, or no
\* list option when none survives; nothing of a list spills into further
\* words of the string.
C9_EngineSeesSanitizedLists ==
    \A config \in {engine_calls[i].config : i \in 1..Len(engine_calls)} :
        /\ OptionValues(config, WhitelistName) = Embedded(whitelist)
        /\ OptionValues(config, BlacklistName) = Embedded(blacklist)
        /\ Len(SplitOn(config, 32)) =
              6 + 2 * Cardinality(Embedded(whitelist))
                + 2 * Cardinality(Embedded(blacklist))

\* all three kinds of engine call were made for a request whose lists hold
\* characters the sanitizer removes
C9_Witness ==
    /\ CallsOf("initial") # {} /\ CallsOf("retry") # {} /\ CallsOf("whole") # {}
    /\ whitelist = Some(<<97, 60>>)
    /\ blacklist = Some(<<59, 98, 32>>)

MinOf(S) == CHOOSE x \in S : \A y \in S : x <= y

MaxOf(S) == CHOOSE x \in S : \A y \in S : x >= y

\* the kept tokens of a line, as <<region, token>>
TokensOf(key) ==
    {m \in merged : TokenKey(m[2], RegionTag(m[1] - 1)) = key}

\* C10: every line's box is the union of the boxes of the tokens merged
\* under its key, each moved by its region's offset; merging again a token
\* that is already in a line leaves the line's box as it is.
C10_UnionBoxIdempotent ==
    /\ DOMAIN lines = {TokenKey(m[2], RegionTag(m[1] - 1)) : m \in merged}
    /\ \A key \in DOMAIN lines :
          lines[key].bbox =
             [min_x |-> MinOf({m[2].left + regions[m[1]][1] : m \in TokensOf(key)}),
              min_y |-> MinOf({m[2].top + regions[m[1]][2] : m \in TokensOf(key)}),
              max_x |-> MaxOf({m[2].left + regions[m[1]][1] + m[2].width :
                                 m \in TokensOf(key)}),
              max_y |-> MaxOf({m[2].top + regions[m[1]][2] + m[2].height :
                                 m \in TokensOf(key)})]
    /\ \A m \in merged :
          LET key == TokenKey(m[2], RegionTag(m[1] - 1))
              again == accumulate_ocr_lines(<<m[2]>>, regions[m[1]][1],
                                            regions[m[1]][2], RegionTag(m[1] - 1),
                                            lines)
          IN again[key].bbox = lines[key].bbox

\* a line of the second region whose box is wider and taller than any one
\* of its three tokens, one of them merged twice
C10_Witness ==
    \E key \in DOMAIN lines :
        /\ key[1] = RegionTag(1)
        /\ Len(lines[key].confidences) = 3
        /\ Cardinality(TokensOf(key)) = 2
        /\ lines[key].bbox = [min_x |-> 5, min_y |-> 7, max_x |-> 8, max_y |-> 9]

====
